---- MODULE Spec2Model ----
(***************************************************************************)
(* A model of pdf_splitter.py: the size-targeted chunk planner             *)
(* split_pdf_by_size, and main() from the optimization pre-pass on          *)
(* (optimize, select target and codec, plan, compress every chunk, clean    *)
(* up, summarise).                                                         *)
(*                                                                         *)
(* Page indices are 0-based as in the source; page i of the document is    *)
(* reader[i + 1].                                                          *)
(***************************************************************************)
EXTENDS Integers, Sequences, FiniteSets, TLC

\* ---------------------------------------------------------------- bounds
MaxPages == 3
MaxContent == 2
MaxTarget == 6
\* Bytes every serialized document carries (header, catalog, trailer).
Overhead == 1
\* Bytes of the resource (font, image) that pages marked shared reference;
\* a serialization that contains any such page carries it once.
SharedSize == 3
\* No call numbers more chunks than this (a call numbers at most total_pages).
MaxChunkNum == 8
\* Bytes an archive adds to the file it holds.
ContainerBytes == 1

VARIABLES
    HAS,            \* optional libraries found at import (HAS_7Z, HAS_ZSTD, HAS_LZ4)
    reader,         \* the document: a sequence of pages
    original_size,  \* bytes of the file at pdf_path
    optimization,   \* TRUE when select_optimization_options returned options
    success,        \* what optimize_pdf_advanced returned first (FALSE until called)
    working_pdf,    \* "pdf_path" or "optimized_path"
    optimized_path, \* "None" or "set"
    optimized_file, \* the file <name>_optimized.pdf next to the source
    target_bytes,
    method_id,
    pc,             \* where main() is
    run,            \* number of the current call of split_pdf_by_size
    current_page, chunk_pages, chunk_size, start_page, chunk_num, chunk_paths,
    chunks,         \* the page range of every chunk written by the current call
    progress_log,   \* the arguments of every progress_callback invocation
    first_target, first_chunks,  \* target and result of the previous call
    fs,             \* the files on disk: path -> content
    ci,             \* position of main's loop over chunk_paths
    output_paths, total_uncompressed, total_compressed,
    remove_failed,  \* paths whose os.remove raised OSError in cleanup_files
    error           \* the exception that ended main(), or "none"

vars == <<HAS, reader, target_bytes, method_id, pc, run, current_page, chunk_pages,
          chunk_size, start_page, chunk_num, chunk_paths, chunks, progress_log,
          first_target, first_chunks, fs, ci, output_paths, total_uncompressed,
          total_compressed, remove_failed, error, original_size, optimization,
          success, working_pdf, optimized_path, optimized_file>>

envVars == <<HAS, reader, target_bytes, method_id>>
planVars == <<current_page, chunk_pages, chunk_size, start_page, chunk_num,
              chunk_paths, chunks, progress_log>>
mainVars == <<ci, output_paths, total_uncompressed, total_compressed, remove_failed>>
optVars == <<original_size, optimization, success, working_pdf, optimized_path,
             optimized_file>>

\* ------------------------------------------------------------- the codecs
COMPRESSION_METHODS ==
    << [id |-> "7z_ultra",    ext |-> ".7z",  avail |-> "7z" \in HAS],
       [id |-> "zip_lzma",    ext |-> ".zip", avail |-> TRUE],
       [id |-> "7z_normal",   ext |-> ".7z",  avail |-> "7z" \in HAS],
       [id |-> "zip_bzip2",   ext |-> ".zip", avail |-> TRUE],
       [id |-> "zstd_high",   ext |-> ".zst", avail |-> "zstd" \in HAS],
       [id |-> "zip_deflate", ext |-> ".zip", avail |-> TRUE],
       [id |-> "zstd_fast",   ext |-> ".zst", avail |-> "zstd" \in HAS],
       [id |-> "lz4",         ext |-> ".lz4", avail |-> "lz4" \in HAS],
       [id |-> "none",        ext |-> ".pdf", avail |-> TRUE] >>

\* get_available_methods without the filter on the flag.
get_all_methods == COMPRESSION_METHODS

get_available_methods ==
    SelectSeq(COMPRESSION_METHODS, LAMBDA m : m.avail)

\* ------------------------------------------------------------ measurement
Page == [content : 1..MaxContent, shared : BOOLEAN]

RECURSIVE SumContent(_, _)
SumContent(doc, page_indices) ==
    IF page_indices = <<>> THEN 0
    ELSE doc[Head(page_indices) + 1].content + SumContent(doc, Tail(page_indices))

\* build_writer_from_pages followed by measure_writer_size: the byte length of
\* the serialization of the listed pages. Not additive: the shared resource
\* is written once however many of the pages reference it.
measure_writer_size(doc, page_indices) ==
    Overhead + SumContent(doc, page_indices)
    + (IF \E k \in 1..Len(page_indices) : doc[page_indices[k] + 1].shared
       THEN SharedSize ELSE 0)

abs(x) == IF x < 0 THEN -x ELSE x

total_pages == Len(reader)

\* ------------------------------------------------------------- file names
RECURSIVE Digits(_)
Digits(n) == IF n < 10 THEN <<n>> ELSE Append(Digits(n \div 10), n % 10)

\* The format specification :03d: decimal digits, zero-padded to three.
Pad3(n) ==
    IF n < 10 THEN <<0, 0, n>>
    ELSE IF n < 100 THEN <<0>> \o Digits(n)
    ELSE Digits(n)

\* The number a decimal label is read as.
RECURSIVE Num(_)
Num(digits) ==
    IF digits = <<>> THEN 0
    ELSE 10 * Num(SubSeq(digits, 1, Len(digits) - 1)) + digits[Len(digits)]

\* ChunkPath with the first page labelled by its 0-based index.
ChunkPathZeroBased(num, start, end) ==
    [chunk |-> Pad3(num), first |-> Pad3(start), last |-> Pad3(end), ext |-> ".pdf"]

\* f"{base_name}_chunk{chunk_num:03d}_pages{start_page + 1:03d}-{end_page:03d}.pdf"
\* joined to output_dir; the fixed parts of the name are left out.
ChunkPath(num, start, end) ==
    [chunk |-> Pad3(num), first |-> Pad3(start + 1), last |-> Pad3(end), ext |-> ".pdf"]

\* --------------------------------------------------- split_pdf_by_size
\* Rejects with the two errors compared the wrong way round.
RejectsReversed(pages, size, test_size, target) ==
    /\ test_size > target
    /\ Len(pages) > 0
    /\ abs(size - target) >= abs(test_size - target)

\* Rejects without the comparison of the errors: never go over the target.
RejectsAnyOvershoot(pages, size, test_size, target) ==
    /\ test_size > target
    /\ Len(pages) > 0

\* Rejects without the test that the chunk already holds a page.
RejectsEmptyChunk(pages, size, test_size, target) ==
    /\ test_size > target
    /\ abs(size - target) <= abs(test_size - target)

\* Rejects with a strict comparison: on equal errors the page is taken.
RejectsStrict(pages, size, test_size, target) ==
    /\ test_size > target
    /\ Len(pages) > 0
    /\ abs(size - target) < abs(test_size - target)

\* Lines 489-494: the tentative page is turned down and the chunk closed.
Rejects(pages, size, test_size, target) ==
    /\ test_size > target
    /\ Len(pages) > 0
    /\ abs(size - target) <= abs(test_size - target)

\* Reached, one byte early.
ReachedOffByOne(test_size, target) == test_size >= target - 1

\* Lines 503-504: the chunk is closed once it has reached the target.
Reached(test_size, target) == test_size >= target

\* SplitCall with current_page kept from the call before.
SplitCallKeepsPage ==
    /\ pc = "split"
    /\ chunk_paths' = <<>>
    /\ chunk_num' = 1
    /\ chunks' = <<>>
    /\ progress_log' = <<>>
    /\ pc' = "outer"
    /\ UNCHANGED <<envVars, optVars, run, current_page, chunk_pages, chunk_size, start_page,
                   first_target, first_chunks, fs, mainVars, error>>

\* Lines 474-477: the locals of a call.
SplitCall ==
    /\ pc = "split"
    /\ chunk_paths' = <<>>
    /\ chunk_num' = 1
    /\ current_page' = 0
    /\ chunks' = <<>>
    /\ progress_log' = <<>>
    /\ pc' = "outer"
    /\ UNCHANGED <<envVars, optVars, run, chunk_pages, chunk_size, start_page,
                   first_target, first_chunks, fs, mainVars, error>>

\* SplitOuter without line 480: the pages of the chunk before are kept.
SplitOuterKeepsPages ==
    /\ pc = "outer"
    /\ IF current_page < total_pages
       THEN /\ chunk_size' = 0
            /\ start_page' = current_page
            /\ pc' = "inner"
       ELSE /\ pc' = "returned"
            /\ UNCHANGED <<chunk_size, start_page>>
    /\ UNCHANGED <<envVars, optVars, run, current_page, chunk_pages, chunk_num, chunk_paths,
                   chunks, progress_log, first_target, first_chunks, fs, mainVars, error>>

\* Lines 479-482: the outer loop's test, and the start of a chunk.
SplitOuter ==
    /\ pc = "outer"
    /\ IF current_page < total_pages
       THEN /\ chunk_pages' = <<>>
            /\ chunk_size' = 0
            /\ start_page' = current_page
            /\ pc' = "inner"
       ELSE /\ pc' = "returned"     \* line 521: return chunk_paths
            /\ UNCHANGED <<chunk_pages, chunk_size, start_page>>
    /\ UNCHANGED <<envVars, optVars, run, current_page, chunk_num, chunk_paths, chunks,
                   progress_log, first_target, first_chunks, fs, mainVars, error>>

\* SplitInner with the callback of lines 500-501 invoked before line 498.
SplitInnerReportsBefore ==
    /\ pc = "inner"
    /\ IF current_page < total_pages
       THEN LET test_pages == Append(chunk_pages, current_page)
                test_size == measure_writer_size(reader, test_pages)
            IN  IF Rejects(chunk_pages, chunk_size, test_size, target_bytes)
                THEN /\ pc' = "close"
                     /\ UNCHANGED <<chunk_pages, chunk_size, current_page, progress_log>>
                ELSE /\ chunk_pages' = test_pages
                     /\ chunk_size' = test_size
                     /\ current_page' = current_page + 1
                     /\ progress_log' = Append(progress_log, <<current_page, total_pages>>)
                     /\ pc' = IF Reached(test_size, target_bytes) THEN "close" ELSE "inner"
       ELSE /\ pc' = "close"
            /\ UNCHANGED <<chunk_pages, chunk_size, current_page, progress_log>>
    /\ UNCHANGED <<envVars, optVars, run, start_page, chunk_num, chunk_paths, chunks,
                   first_target, first_chunks, fs, mainVars, error>>

\* Lines 484-504: one pass of the inner loop whose measurement succeeds.
SplitInner ==
    /\ pc = "inner"
    /\ IF current_page < total_pages
       THEN LET test_pages == Append(chunk_pages, current_page)
                test_size == measure_writer_size(reader, test_pages)
            IN  IF Rejects(chunk_pages, chunk_size, test_size, target_bytes)
                THEN /\ pc' = "close"
                     /\ UNCHANGED <<chunk_pages, chunk_size, current_page, progress_log>>
                ELSE /\ chunk_pages' = test_pages
                     /\ chunk_size' = test_size
                     /\ current_page' = current_page + 1
                     /\ progress_log' = Append(progress_log, <<current_page + 1, total_pages>>)
                     /\ pc' = IF Reached(test_size, target_bytes) THEN "close" ELSE "inner"
       ELSE /\ pc' = "close"
            /\ UNCHANGED <<chunk_pages, chunk_size, current_page, progress_log>>
    /\ UNCHANGED <<envVars, optVars, run, start_page, chunk_num, chunk_paths, chunks,
                   first_target, first_chunks, fs, mainVars, error>>

\* Lines 486-487: serializing the tentative pages raises. Neither
\* split_pdf_by_size nor main() (line 750) catches it: main ends there.
MeasureFails ==
    /\ pc = "inner"
    /\ current_page < total_pages
    /\ error' = "SerializationError"
    /\ pc' = "crashed"
    /\ UNCHANGED <<envVars, optVars, run, planVars, first_target, first_chunks, fs, mainVars>>

\* Lines 506-519: the chunk is written to disk and its path recorded.
SplitClose ==
    /\ pc = "close"
    /\ chunk_num <= MaxChunkNum
    /\ LET end_page == start_page + Len(chunk_pages)
           chunk_path == ChunkPath(chunk_num, start_page, end_page)
       IN  /\ fs' = (chunk_path :> [kind |-> "pdf", pages |-> chunk_pages,
                                    size |-> measure_writer_size(reader, chunk_pages)]) @@ fs
           /\ chunk_paths' = Append(chunk_paths, chunk_path)
           /\ chunks' = Append(chunks, [start |-> start_page, end |-> end_page,
                                        pages |-> chunk_pages])
    /\ chunk_num' = chunk_num + 1
    /\ pc' = "outer"
    /\ UNCHANGED <<envVars, optVars, run, current_page, chunk_pages, chunk_size, start_page,
                   progress_log, first_target, first_chunks, mainVars, error>>

\* --------------------------------------------------------- compress_file
\* os.path.getsize of an archive that holds n bytes.
ArchiveSize(n) == ContainerBytes + n

\* compress_file with "none" wrapped like every other codec: the archive is
\* written over the input.
compress_fileNoneWraps(files, pdf_path, method) ==
    LET Out(e) == [chunk |-> pdf_path.chunk, first |-> pdf_path.first,
                   last |-> pdf_path.last, ext |-> e]
        Wrote(e) == [raised |-> "none", out_path |-> Out(e),
                     size |-> ArchiveSize(files[pdf_path].size),
                     files |-> (Out(e) :> [kind |-> "archive", codec |-> method,
                                           payload |-> files[pdf_path],
                                           size |-> ArchiveSize(files[pdf_path].size)])
                               @@ files]
        Raised(x) == [raised |-> x, out_path |-> pdf_path, size |-> 0, files |-> files]
    IN  IF method = "none" THEN Wrote(".pdf")
        ELSE IF method \in {"zip_deflate", "zip_bzip2", "zip_lzma"} THEN Wrote(".zip")
        ELSE IF method \in {"7z_normal", "7z_ultra"}
             THEN IF "7z" \in HAS THEN Wrote(".7z") ELSE Raised("NameError")
        ELSE IF method \in {"zstd_fast", "zstd_high"}
             THEN IF "zstd" \in HAS THEN Wrote(".zst") ELSE Raised("NameError")
        ELSE IF method = "lz4"
             THEN IF "lz4" \in HAS THEN Wrote(".lz4") ELSE Raised("NameError")
        ELSE Raised("ValueError")

\* What the call leaves on disk and returns (the path and os.path.getsize of
\* the output), or the exception it raises. Every branch but "none" writes
\* base_path + <extension of the codec>, an archive that holds the chunk
\* file's bytes; the 7z, zstd and lz4 branches use a module that is bound
\* only when its import succeeded.
compress_file(files, pdf_path, method) ==
    LET base_path == [chunk |-> pdf_path.chunk, first |-> pdf_path.first,
                      last |-> pdf_path.last]
        Out(e) == [chunk |-> base_path.chunk, first |-> base_path.first,
                   last |-> base_path.last, ext |-> e]
        Wrote(e) == [raised |-> "none", out_path |-> Out(e),
                     size |-> ArchiveSize(files[pdf_path].size),
                     files |-> (Out(e) :> [kind |-> "archive", codec |-> method,
                                           payload |-> files[pdf_path],
                                           size |-> ArchiveSize(files[pdf_path].size)])
                               @@ files]
        Raised(x) == [raised |-> x, out_path |-> pdf_path, size |-> 0, files |-> files]
    IN  IF method = "none"
        THEN [raised |-> "none", out_path |-> pdf_path, size |-> files[pdf_path].size,
              files |-> files]
        ELSE IF method \in {"zip_deflate", "zip_bzip2", "zip_lzma"} THEN Wrote(".zip")
        ELSE IF method \in {"7z_normal", "7z_ultra"}
             THEN IF "7z" \in HAS THEN Wrote(".7z") ELSE Raised("NameError")
        ELSE IF method \in {"zstd_fast", "zstd_high"}
             THEN IF "zstd" \in HAS THEN Wrote(".zst") ELSE Raised("NameError")
        ELSE IF method = "lz4"
             THEN IF "lz4" \in HAS THEN Wrote(".lz4") ELSE Raised("NameError")
        ELSE Raised("ValueError")

\* --------------------------------------------------------- cleanup_files
\* os.remove of every listed path that does not end with keep_extension
\* ("" for None); failing are the paths whose os.remove raises OSError,
\* which is swallowed.
cleanup_files(files, file_paths, keep_extension, failing) ==
    LET removed == {file_paths[k] : k \in 1..Len(file_paths)} \ failing
        kept == IF keep_extension = "" THEN {}
                ELSE {p \in removed : p.ext = keep_extension}
    IN  [p \in (DOMAIN files) \ (removed \ kept) |-> files[p]]

\* ------------------------------------------------------------------ main
\* No file at the path of the optimized document.
NoFile == [exists |-> FALSE, doc |-> <<>>, size |-> 0]

\* Lines 710-711, 724-725, 784-785: os.remove of the optimized file, when
\* optimized_path is set and the file exists.
RemoveOptimized ==
    optimized_file' = IF optimized_path = "set" /\ optimized_file.exists
                      THEN NoFile ELSE optimized_file

\* The sizes optimize_pdf_advanced may leave the optimized file with: a
\* fiftieth, a hundredth and a two-hundredth under the original, and no gain.
FinalSizes(original) ==
    {original - original \div 50, original - original \div 100,
     original - original \div 200, original}

\* The document the optimized file holds: the pages of the source in the same
\* order (line 410), their content streams compressed (line 415).
Optimized(doc) ==
    [k \in DOMAIN doc |-> [content |-> (doc[k].content + 1) \div 2,
                           shared |-> doc[k].shared]]

\* The test of line 686 with the comparison left out: any gain counts.
AnyReduction(original, final) == final < original

\* Lines 446 and 686: reduction_percent = (1 - final_size / original_size) * 100
\* is computed in IEEE-754 doubles and compared with 1. When the reduction is
\* exactly one hundredth, the quotient is the double nearest to 0.99, which
\* lies below 0.99, and the product comes out as 1.0000000000000009: the
\* comparison is true. For every other pair of sizes below 2^46 the rounding
\* error is smaller than the distance to 1 and the comparison is that of the
\* exact values. So reduction > 1 is true exactly when the file lost at
\* least a hundredth of its bytes.
MeaningfulReduction(original, final) == (original - final) * 100 >= original

\* Line 651: select_optimization_options returned None.
OptimizeSkip ==
    /\ pc = "optimize"
    /\ optimization' = FALSE
    /\ pc' = "target"
    /\ UNCHANGED <<envVars, original_size, success, working_pdf, optimized_path,
                   optimized_file, run, planVars, first_target, first_chunks, fs,
                   mainVars, error>>

\* OptimizeCall with a failure of the optimization raised to main().
OptimizeCallRaises ==
    /\ pc = "optimize"
    /\ optimization' = TRUE
    /\ optimized_path' = "set"
    /\ \/ \E final_size \in FinalSizes(original_size) :
            /\ success' = TRUE
            /\ optimized_file' = [exists |-> TRUE, doc |-> Optimized(reader),
                                  size |-> final_size]
            /\ pc' = "optimized"
            /\ UNCHANGED error
       \/ \E left \in BOOLEAN :
            /\ success' = FALSE
            /\ optimized_file' = IF left THEN [exists |-> TRUE, doc |-> <<>>, size |-> 0]
                                 ELSE optimized_file
            /\ pc' = "crashed"
            /\ error' = "Exception"
    /\ UNCHANGED <<envVars, original_size, working_pdf, run, planVars, first_target,
                   first_chunks, fs, mainVars>>

\* Lines 651-677 and optimize_pdf_advanced (383-451): options were chosen,
\* optimized_path is set and the call returns. Either it wrote the optimized
\* file and returns success with its size, or something in its try block
\* raised and it returns success = False; what raised may have been the write
\* of line 442 or a statement after it, and then a file is left at
\* optimized_path.
OptimizeCall ==
    /\ pc = "optimize"
    /\ optimization' = TRUE
    /\ optimized_path' = "set"
    /\ \/ \E final_size \in FinalSizes(original_size) :
            /\ success' = TRUE
            /\ optimized_file' = [exists |-> TRUE, doc |-> Optimized(reader),
                                  size |-> final_size]
       \/ \E left \in BOOLEAN :
            /\ success' = FALSE
            /\ optimized_file' = IF left THEN [exists |-> TRUE, doc |-> <<>>, size |-> 0]
                                 ELSE optimized_file
    /\ pc' = "optimized"
    /\ UNCHANGED <<envVars, original_size, working_pdf, run, planVars, first_target,
                   first_chunks, fs, mainVars, error>>

\* Lines 680-699: the optimized document replaces the original when the
\* reduction is meaningful; otherwise the optimized file is removed, or, when
\* the optimization failed, only forgotten.
UseOptimized ==
    /\ pc = "optimized"
    /\ IF success
       THEN IF MeaningfulReduction(original_size, optimized_file.size)
            THEN /\ working_pdf' = "optimized_path"
                 /\ reader' = optimized_file.doc
                 /\ UNCHANGED <<optimized_path, optimized_file>>
            ELSE /\ optimized_file' = IF optimized_file.exists THEN NoFile
                                      ELSE optimized_file
                 /\ optimized_path' = "None"
                 /\ UNCHANGED <<working_pdf, reader>>
       ELSE /\ optimized_path' = "None"
            /\ UNCHANGED <<working_pdf, reader, optimized_file>>
    /\ pc' = "target"
    /\ UNCHANGED <<HAS, target_bytes, method_id, original_size, optimization, success,
                   run, planVars, first_target, first_chunks, fs, mainVars, error>>

\* Lines 704, 714: get_target_size_mb returned a size.
SelectTarget ==
    /\ pc = "target"
    /\ \E t \in 1..MaxTarget : target_bytes' = t
    /\ pc' = "codec"
    /\ UNCHANGED <<HAS, reader, method_id, optVars, run, planVars, first_target,
                   first_chunks, fs, mainVars, error>>

\* Lines 706-712: the dialog was cancelled; main returns.
CancelTarget ==
    /\ pc = "target"
    /\ RemoveOptimized
    /\ pc' = "exited"
    /\ UNCHANGED <<envVars, original_size, optimization, success, working_pdf,
                   optimized_path, run, planVars, first_target, first_chunks, fs,
                   mainVars, error>>

\* Lines 720, 728-736: select_compression_method returned an entry of the
\* list it shows, get_available_methods(); the output directory is made.
SelectCompression ==
    /\ pc = "codec"
    /\ \E idx \in 1..Len(get_available_methods) :
         method_id' = get_available_methods[idx].id
    /\ pc' = "split"
    /\ UNCHANGED <<HAS, reader, target_bytes, optVars, run, planVars, first_target,
                   first_chunks, fs, mainVars, error>>

\* Lines 722-726: the dialog was cancelled; main returns.
CancelCompression ==
    /\ pc = "codec"
    /\ RemoveOptimized
    /\ pc' = "exited"
    /\ UNCHANGED <<envVars, original_size, optimization, success, working_pdf,
                   optimized_path, run, planVars, first_target, first_chunks, fs,
                   mainVars, error>>

\* Lines 754-758: split_pdf_by_size has returned; the loop's accumulators.
CompressStart ==
    /\ pc = "returned"
    /\ output_paths' = <<>>
    /\ total_uncompressed' = 0
    /\ total_compressed' = 0
    /\ ci' = 0
    /\ pc' = "compress"
    /\ UNCHANGED <<envVars, optVars, run, planVars, first_target, first_chunks, fs,
                   remove_failed, error>>

\* Lines 760-766: one pass of the loop over chunk_paths.
CompressChunk ==
    /\ pc = "compress"
    /\ ci < Len(chunk_paths)
    /\ LET chunk_path == chunk_paths[ci + 1]
           uncompressed_size == fs[chunk_path].size
           r == compress_file(fs, chunk_path, method_id)
       IN  IF r.raised = "none"
           THEN /\ fs' = r.files
                /\ output_paths' = Append(output_paths, r.out_path)
                /\ total_uncompressed' = total_uncompressed + uncompressed_size
                /\ total_compressed' = total_compressed + r.size
                /\ ci' = ci + 1
                /\ UNCHANGED <<pc, error>>
           ELSE /\ error' = r.raised
                /\ pc' = "crashed"
                /\ UNCHANGED <<fs, output_paths, total_uncompressed, total_compressed, ci>>
    /\ UNCHANGED <<envVars, optVars, run, planVars, first_target, first_chunks, remove_failed>>

\* Line 762: writing the archive raises (disk full, codec error). The call is
\* in no try block: main ends there. The archive being written may be left
\* behind, truncated.
CompressFails ==
    /\ pc = "compress"
    /\ ci < Len(chunk_paths)
    /\ method_id # "none"
    /\ \E left \in BOOLEAN :
         LET r == compress_file(fs, chunk_paths[ci + 1], method_id)
         IN  fs' = IF left /\ r.raised = "none"
                   THEN (r.out_path :> [kind |-> "truncated"]) @@ fs
                   ELSE fs
    /\ error' = "OSError"
    /\ pc' = "crashed"
    /\ UNCHANGED <<envVars, optVars, run, planVars, first_target, first_chunks, mainVars>>

\* Line 760: the loop is exhausted.
CompressDone ==
    /\ pc = "compress"
    /\ ci = Len(chunk_paths)
    /\ pc' = "cleanup"
    /\ UNCHANGED <<envVars, optVars, run, planVars, first_target, first_chunks, fs, mainVars, error>>

\* Cleanup without the test of line 779.
CleanupAlways ==
    /\ pc = "cleanup"
    /\ \E failing \in SUBSET {chunk_paths[k] : k \in 1..Len(chunk_paths)} :
         /\ fs' = cleanup_files(fs, chunk_paths, "", failing)
         /\ remove_failed' = failing
    /\ RemoveOptimized
    /\ pc' = "summary"
    /\ UNCHANGED <<envVars, original_size, optimization, success, working_pdf,
                   optimized_path, run, planVars, first_target, first_chunks,
                   ci, output_paths, total_uncompressed, total_compressed, error>>

\* Lines 779-785: the chunk files are removed unless they are the output,
\* then the optimized file.
Cleanup ==
    /\ pc = "cleanup"
    /\ IF method_id # "none"
       THEN \E failing \in SUBSET {chunk_paths[k] : k \in 1..Len(chunk_paths)} :
              /\ fs' = cleanup_files(fs, chunk_paths, "", failing)
              /\ remove_failed' = failing
       ELSE UNCHANGED <<fs, remove_failed>>
    /\ RemoveOptimized
    /\ pc' = "summary"
    /\ UNCHANGED <<envVars, original_size, optimization, success, working_pdf,
                   optimized_path, run, planVars, first_target, first_chunks,
                   ci, output_paths, total_uncompressed, total_compressed, error>>

\* Lines 788-815: the summary. Line 791 divides by total_uncompressed.
Summary ==
    /\ pc = "summary"
    /\ IF method_id # "none" /\ total_uncompressed = 0
       THEN error' = "ZeroDivisionError" /\ pc' = "crashed"
       ELSE pc' = "done" /\ UNCHANGED error
    /\ UNCHANGED <<envVars, optVars, run, planVars, first_target, first_chunks, fs, mainVars>>

\* ---------------------------------------------------------------- states
Documents == UNION {[1..n -> Page] : n \in 0..MaxPages}

Libraries == {"7z", "zstd", "lz4"}

\* Documents none of whose pages references the shared resource.
PlainDocuments == {d \in Documents : \A k \in 1..Len(d) : ~d[k].shared}

\* Plain documents whose pages all have the same content.
UniformDocuments ==
    {d \in PlainDocuments : \A j, k \in 1..Len(d) : d[j].content = d[k].content}

\* The files main() reads: their sizes in bytes.
OriginalSizes == {200}

Locals ==
    /\ run = 1
    /\ original_size \in OriginalSizes
    /\ optimization = FALSE
    /\ success = FALSE
    /\ working_pdf = "pdf_path"
    /\ optimized_path = "None"
    /\ optimized_file = NoFile
    /\ total_compressed = 0
    /\ current_page = 0
    /\ chunk_pages = <<>>
    /\ chunk_size = 0
    /\ start_page = 0
    /\ chunk_num = 1
    /\ chunk_paths = <<>>
    /\ chunks = <<>>
    /\ progress_log = <<>>
    /\ first_target = 0
    /\ first_chunks = <<>>
    /\ fs = <<>>
    /\ ci = 0
    /\ output_paths = <<>>
    /\ total_uncompressed = 0
    /\ remove_failed = {}
    /\ error = "none"

\* main() at line 649, about to ask for the optimization options: the
\* libraries found at import and the document read. target_bytes and
\* method_id are not bound yet. main reads the document only through
\* split_pdf_by_size, and the uniform documents already give it every
\* number of chunks.
Init ==
    /\ HAS \in SUBSET Libraries
    /\ reader \in UniformDocuments
    /\ target_bytes = 0
    /\ method_id = ""
    /\ pc = "optimize"
    /\ Locals

Next ==
    \/ OptimizeSkip \/ OptimizeCall \/ UseOptimized
    \/ SelectTarget \/ CancelTarget \/ SelectCompression \/ CancelCompression
    \/ SplitCall \/ SplitOuter \/ SplitInner \/ MeasureFails \/ SplitClose
    \/ CompressStart \/ CompressChunk \/ CompressFails \/ CompressDone \/ Cleanup \/ Summary

Spec == Init /\ [][Next]_vars

\* ------------------------------------------- split_pdf_by_size on its own
\* A caller that plans any document against any target and then plans the
\* same reader once more, against the same target or twice the target.
SplitAgain ==
    /\ pc = "returned"
    /\ run = 1
    /\ first_target' = target_bytes
    /\ first_chunks' = chunks
    /\ \E t \in {target_bytes, 2 * target_bytes} : target_bytes' = t
    /\ run' = 2
    /\ pc' = "split"
    /\ UNCHANGED <<HAS, reader, method_id, optVars, planVars, fs, mainVars, error>>

InitSplit ==
    /\ HAS = {}
    /\ reader \in Documents
    /\ target_bytes \in 1..MaxTarget
    /\ method_id = "none"
    /\ pc = "split"
    /\ Locals

NextSplit ==
    \/ SplitCall \/ SplitOuter \/ SplitInner \/ MeasureFails \/ SplitClose
    \/ SplitAgain

SpecSplit == InitSplit /\ [][NextSplit]_vars

\* The interpreter runs a call to its end: a step that can be taken is taken.
FairSplit == SpecSplit /\ WF_vars(NextSplit)

\* ================================================================ claims
\* The page indices s, s+1, ..., e-1.
Range(s, e) == [k \in 1..(e - s) |-> s + k - 1]

\* The measured size of pages [s, e).
MeasureRange(s, e) == measure_writer_size(reader, Range(s, e))

\* A call of split_pdf_by_size is under way or has returned.
Called == pc \in {"outer", "inner", "close", "returned"}

\* C1: the chunks written so far are non-empty contiguous page ranges, the
\* first starting at page 0 and each next one where the one before ended, and
\* when the call returns the last one ends at total_pages (no chunk at all for
\* a document without pages): every page is in exactly one chunk.
C1_ChunksCoverDocument ==
    Called =>
      /\ \A k \in 1..Len(chunks) :
           /\ chunks[k].start < chunks[k].end
           /\ chunks[k].end <= total_pages
           /\ chunks[k].start = (IF k = 1 THEN 0 ELSE chunks[k - 1].end)
           /\ chunks[k].pages = Range(chunks[k].start, chunks[k].end)
           /\ fs[chunk_paths[k]].pages = chunks[k].pages
      /\ pc = "returned" =>
           (IF total_pages = 0 THEN chunks = <<>>
            ELSE chunks # <<>> /\ chunks[Len(chunks)].end = total_pages)

C1_Witness ==
    /\ pc = "returned"
    /\ Len(chunks) = 2
    /\ total_pages = 3

\* The measured size of pages s..k grows strictly with k.
StrictGrowth(s) ==
    \A k \in (s + 1)..(total_pages - 1) : MeasureRange(s, k) < MeasureRange(s, k + 1)

\* C2: where the size grows strictly with every page, no other end of a chunk
\* that starts at the same page is strictly closer to target_bytes than the
\* end the planner chose; a page that alone is over the target is a chunk of
\* its own.
C2_ClosestToTarget ==
    Called =>
      \A k \in 1..Len(chunks) :
        LET s == chunks[k].start
            e == chunks[k].end
        IN  StrictGrowth(s) =>
              /\ \A e2 \in (s + 1)..total_pages :
                   abs(MeasureRange(s, e2) - target_bytes)
                     >= abs(MeasureRange(s, e) - target_bytes)
              /\ MeasureRange(s, s + 1) > target_bytes => e = s + 1

\* A chunk closed under the target because the next page would have taken it
\* further over, followed by that page as a chunk of its own.
C2_Witness ==
    /\ pc = "returned"
    /\ \E k \in 1..(Len(chunks) - 1) :
         /\ MeasureRange(chunks[k].start, chunks[k].end) < target_bytes
         /\ MeasureRange(chunks[k].start, chunks[k].end + 1) > target_bytes
         /\ MeasureRange(chunks[k + 1].start, chunks[k + 1].start + 1) > target_bytes

\* C3 as stated: a document whose whole size is at most target_bytes is
\* planned as exactly one chunk that covers all its pages.
C3_WholeDocumentOneChunk ==
    (pc = "returned" /\ MeasureRange(0, total_pages) <= target_bytes) =>
      /\ Len(chunks) = 1
      /\ chunks[1].start = 0 /\ chunks[1].end = total_pages

\* C3, amended: the same for a document that has at least one page.
C3_NonEmptyDocumentOneChunk ==
    (pc = "returned" /\ total_pages >= 1 /\ MeasureRange(0, total_pages) <= target_bytes) =>
      /\ Len(chunks) = 1
      /\ chunks[1].start = 0 /\ chunks[1].end = total_pages

C3_Witness ==
    /\ pc = "returned"
    /\ total_pages = 3
    /\ MeasureRange(0, total_pages) = target_bytes

AllOversized ==
    \A i \in 0..(total_pages - 1) : MeasureRange(i, i + 1) > target_bytes

\* C4: when every page alone measures more than target_bytes, the k-th chunk
\* is the single page [k-1, k), and the call returns total_pages chunks.
C4_OversizedPagesAlone ==
    (Called /\ AllOversized) =>
      /\ \A k \in 1..Len(chunks) : chunks[k].start = k - 1 /\ chunks[k].end = k
      /\ pc = "returned" => Len(chunks) = total_pages

C4_Witness ==
    /\ pc = "returned"
    /\ AllOversized
    /\ total_pages = 3
    /\ Len(chunks) = 3

\* C5: planning the same document against twice the target never gives
\* more chunks.
C5_DoublingNeverMoreChunks ==
    (run = 2 /\ pc = "returned" /\ target_bytes = 2 * first_target) =>
      Len(chunks) <= Len(first_chunks)

C5_Witness ==
    /\ run = 2 /\ pc = "returned" /\ target_bytes = 2 * first_target
    /\ Len(first_chunks) = 3
    /\ Len(chunks) = 2

\* C6: a call ends. current_page never goes back while the call runs and goes
\* up by one with every accepted page; every chunk that is closed has accepted
\* at least one page; and a call that was started either raises or returns
\* with current_page = total_pages.
C6_PlannerTerminates ==
    /\ [][/\ pc \in {"outer", "inner", "close"} => current_page' >= current_page
          /\ (pc = "inner" /\ chunk_pages' # chunk_pages) =>
                current_page' = current_page + 1]_vars
    /\ [](pc = "close" => Len(chunk_pages) >= 1)
    /\ (pc = "split") ~> (pc = "crashed" \/ (pc = "returned" /\ current_page = total_pages))

C6_Witness ==
    /\ pc = "returned"
    /\ current_page = total_pages
    /\ total_pages = 3
    /\ Len(chunks) = 2

\* C7: a call leaves the document as it found it, and a second call on the
\* same reader with the same target returns the same chunks as the first.
C7_SamePlanTwice ==
    /\ [][reader' = reader]_vars
    /\ []((run = 2 /\ pc = "returned" /\ target_bytes = first_target) =>
            chunks = first_chunks)

C7_Witness ==
    /\ run = 2 /\ pc = "returned" /\ target_bytes = first_target
    /\ Len(chunks) = 2
    /\ chunks = first_chunks

\* C8 as stated: when a measurement fails, planning is aborted, the error
\* reaches the caller, and no chunk file of the run is on disk.
C8_NoPartialOutput ==
    error = "SerializationError" =>
      /\ pc = "crashed"
      /\ DOMAIN fs = {}

\* C9 as stated: a failure to compress one chunk does not end main(); the
\* other chunks are still compressed and the summary is reported.
C9_CompressionFailureIsolated ==
    error = "OSError" => pc # "crashed"

\* The uncompressed chunk files among the files f.
ChunkFiles(f) == {p \in DOMAIN f : f[p].kind = "pdf"}

\* Chunk k has been compressed: its archive is on disk and holds its bytes.
Compressed(k) ==
    /\ k <= Len(output_paths)
    /\ output_paths[k] \in DOMAIN fs
    /\ fs[output_paths[k]].kind = "archive"
    /\ fs[output_paths[k]].payload.pages = chunks[k].pages

\* C10: a chunk file leaves the disk only in the clean-up, after every chunk
\* has been compressed, and only when the codec is not "none"; with "none"
\* every chunk file stays and is the output; and when main() completes with
\* another codec and every os.remove succeeded, no chunk file is left and the
\* files on disk are one archive per chunk.
C10_CleanupAfterCompression ==
    /\ [][\A p \in ChunkFiles(fs) :
            p \notin DOMAIN fs' =>
              /\ pc = "cleanup"
              /\ method_id # "none"
              /\ \A k \in 1..Len(chunk_paths) : Compressed(k)]_vars
    /\ []((method_id = "none" /\ pc \in {"cleanup", "summary", "done"}) =>
            /\ output_paths = chunk_paths
            /\ ChunkFiles(fs) = {chunk_paths[k] : k \in 1..Len(chunk_paths)}
            /\ Cardinality(ChunkFiles(fs)) = Len(chunks))
    /\ []((method_id # "none" /\ pc = "done" /\ remove_failed = {}) =>
            /\ ChunkFiles(fs) = {}
            /\ DOMAIN fs = {output_paths[k] : k \in 1..Len(output_paths)}
            /\ Cardinality(DOMAIN fs) = Len(chunks)
            /\ \A k \in 1..Len(chunks) : Compressed(k))

C10_Witness ==
    /\ pc = "done"
    /\ method_id # "none"
    /\ remove_failed = {}
    /\ Len(chunks) = 3
    /\ ChunkFiles(fs) = {}

\* C15 as stated: progress_callback is invoked after every accepted page and
\* after every chunk that is written; the page invocations report
\* 1, 2, ..., total_pages in order, one per accepted page, none for a page
\* that is turned down.
C15_ProgressPagesAndChunks ==
    /\ [][pc = "close" => Len(progress_log') = Len(progress_log) + 1]_vars
    /\ [][pc = "inner" =>
            (Len(progress_log') = Len(progress_log) + 1 <=> chunk_pages' # chunk_pages)]_vars
    /\ [](pc = "returned" =>
            \A k \in 1..total_pages : <<k, total_pages>> \in
                 {progress_log[j] : j \in 1..Len(progress_log)})

\* C15, amended: progress_callback is invoked after every accepted page and
\* at no other point of the call, not when a chunk is written either: the
\* invocations so far are (1, total_pages), ..., (current_page, total_pages)
\* in this order, a pass of the inner loop adds one exactly when it accepts
\* its page, and the call returns after total_pages invocations.
C15_ProgressPerAcceptedPage ==
    /\ [](Called => progress_log = [k \in 1..current_page |-> <<k, total_pages>>])
    /\ [][pc = "inner" =>
            IF chunk_pages' # chunk_pages
            THEN progress_log' = Append(progress_log, <<current_page', total_pages>>)
            ELSE progress_log' = progress_log]_vars
    /\ [][(pc \in {"outer", "close"}) => progress_log' = progress_log]_vars
    /\ [](pc = "returned" => Len(progress_log) = total_pages)

\* Three pages reported, two chunks written, the first closed by turning
\* down the page after it.
C15_Witness ==
    /\ pc = "returned"
    /\ total_pages = 3
    /\ Len(progress_log) = 3
    /\ Len(chunks) = 2
    /\ MeasureRange(chunks[1].start, chunks[1].end) < target_bytes

\* C16: the k-th chunk of a call, pages [start, end), is on disk under the
\* name whose chunk label reads k, whose first-page label reads start + 1 and
\* whose last-page label reads end; the names of a call are pairwise
\* different, and the first-page label of a chunk reads one more than the
\* last-page label of the chunk before.
C16_ChunkNames ==
    Called =>
      /\ Len(chunk_paths) = Len(chunks)
      /\ \A k \in 1..Len(chunk_paths) :
           /\ Num(chunk_paths[k].chunk) = k
           /\ Num(chunk_paths[k].first) = chunks[k].start + 1
           /\ Num(chunk_paths[k].last) = chunks[k].end
           /\ Len(chunk_paths[k].chunk) = 3
           /\ Len(chunk_paths[k].first) = 3
           /\ Len(chunk_paths[k].last) = 3
           /\ chunk_paths[k].ext = ".pdf"
           /\ chunk_paths[k] \in DOMAIN fs
           /\ fs[chunk_paths[k]].pages = chunks[k].pages
           /\ k > 1 => Num(chunk_paths[k].first) = Num(chunk_paths[k - 1].last) + 1
      /\ \A j, k \in 1..Len(chunk_paths) : j # k => chunk_paths[j] # chunk_paths[k]

C16_Witness ==
    /\ pc = "returned"
    /\ Len(chunk_paths) = 2
    /\ chunk_paths[1] = [chunk |-> <<0, 0, 1>>, first |-> <<0, 0, 1>>,
                         last |-> <<0, 0, 2>>, ext |-> ".pdf"]
    /\ chunk_paths[2] = [chunk |-> <<0, 0, 2>>, first |-> <<0, 0, 3>>,
                         last |-> <<0, 0, 3>>, ext |-> ".pdf"]

\* The size the pass of the inner loop measures: the chunk with the next page.
TestSize == MeasureRange(start_page, current_page + 1)

\* The pass of the inner loop took its page into the chunk.
Accepted ==
    /\ chunk_pages' = Append(chunk_pages, current_page)
    /\ chunk_size' = TestSize
    /\ current_page' = current_page + 1

\* The pass of the inner loop turned its page down and closed the chunk.
Rejected ==
    /\ chunk_pages' = chunk_pages
    /\ current_page' = current_page
    /\ pc' = "close"

\* C17: in a pass of the inner loop over a chunk that holds a page, a page
\* that takes the size over target_bytes is turned down whenever the error
\* without it is at most the error with it (equal errors included) and taken
\* only when the error with it is strictly smaller; a page that keeps the
\* size at or under target_bytes is always taken.
C17_TieBreak ==
    [][(pc = "inner" /\ current_page < total_pages /\ pc' # "crashed") =>
         LET without == abs(MeasureRange(start_page, current_page) - target_bytes)
             with == abs(TestSize - target_bytes)
         IN  IF TestSize <= target_bytes THEN Accepted
             ELSE IF chunk_pages = <<>> THEN TRUE
             ELSE IF without <= with THEN Rejected
             ELSE Accepted]_vars

\* A page turned down on equal errors.
C17_Witness ==
    /\ pc = "close"
    /\ current_page < total_pages
    /\ chunk_pages # <<>>
    /\ TestSize > target_bytes
    /\ abs(MeasureRange(start_page, current_page) - target_bytes)
         = abs(TestSize - target_bytes)

\* The size chunk k had before its last page was taken: chunk_size, which is
\* 0 for the chunk that holds no page yet (line 481).
SizeWithoutLast(k) ==
    IF chunks[k].end - chunks[k].start = 1 THEN 0
    ELSE MeasureRange(chunks[k].start, chunks[k].end - 1)

\* C18: every chunk had a size strictly under target_bytes before its last
\* page was taken, so it is over the target by less than what its last page
\* added; and every chunk of two or more pages measures strictly less than
\* twice the target.
C18_BoundedOvershoot ==
    Called =>
      \A k \in 1..Len(chunks) :
        LET size == MeasureRange(chunks[k].start, chunks[k].end)
        IN  /\ SizeWithoutLast(k) < target_bytes
            /\ size - target_bytes < size - SizeWithoutLast(k)
            /\ chunks[k].end - chunks[k].start >= 2 => size < 2 * target_bytes

\* A chunk of two pages that went over the target with its last page.
C18_Witness ==
    /\ pc = "returned"
    /\ \E k \in 1..Len(chunks) :
         /\ chunks[k].end - chunks[k].start >= 2
         /\ MeasureRange(chunks[k].start, chunks[k].end) > target_bytes

\* C11: compress_file with "none" returns the path it was given and the size
\* of that file and leaves the disk as it was; with every codec of the
\* catalog the file it was given is on disk afterwards with the content it
\* had. In main's loop: no chunk file changes while the chunks are
\* compressed, and with "none" the disk does not change, the output path is
\* the chunk path and the size added to total_compressed is the chunk's.
C11_CompressLeavesInput ==
    /\ []((pc = "compress" /\ ci < Len(chunk_paths)) =>
            LET pdf_path == chunk_paths[ci + 1]
                stored == compress_file(fs, pdf_path, "none")
            IN  /\ stored.raised = "none"
                /\ stored.out_path = pdf_path
                /\ stored.size = fs[pdf_path].size
                /\ stored.files = fs
                /\ \A k \in 1..Len(COMPRESSION_METHODS) :
                     LET r == compress_file(fs, pdf_path, COMPRESSION_METHODS[k].id)
                     IN  /\ pdf_path \in DOMAIN r.files
                         /\ r.files[pdf_path] = fs[pdf_path]
                         /\ COMPRESSION_METHODS[k].id # "none" /\ r.raised = "none"
                              => r.out_path # pdf_path)
    /\ [][pc = "compress" =>
            \A path \in ChunkFiles(fs) : path \in DOMAIN fs' /\ fs'[path] = fs[path]]_vars
    /\ [][(pc = "compress" /\ method_id = "none" /\ ci' = ci + 1) =>
            /\ fs' = fs
            /\ output_paths' = Append(output_paths, chunk_paths[ci + 1])
            /\ total_compressed' = total_compressed + fs[chunk_paths[ci + 1]].size]_vars

\* Two chunks passed through compress_file with "none".
C11_Witness ==
    /\ pc = "compress"
    /\ method_id = "none"
    /\ ci = 2
    /\ output_paths = SubSeq(chunk_paths, 1, 2)
    /\ total_compressed = total_uncompressed
    /\ total_compressed > 0

\* method_id is bound: the codec dialog has returned an entry.
CodecSelected ==
    pc \in {"split", "outer", "inner", "close", "returned", "compress", "cleanup",
            "summary", "done"}
    \/ (pc = "crashed" /\ method_id # "")

\* The number of entries flagged available among the first j of the catalog.
Rank(j) == Cardinality({i \in 1..j : COMPRESSION_METHODS[i].avail})

\* C14: the list the codec dialog offers holds exactly the entries of the
\* catalog whose flag is true, in the order of the catalog; "none" is always
\* in it, so it is never empty; the codec main() works with comes from that
\* list, its flag is true, and compress_file never fails for want of the
\* codec's module or for a codec it does not know.
C14_OnlyAvailableCodecs ==
    /\ pc = "codec" =>
         /\ Len(get_available_methods) = Rank(Len(COMPRESSION_METHODS))
         /\ \A j \in 1..Len(COMPRESSION_METHODS) :
              COMPRESSION_METHODS[j].avail =>
                get_available_methods[Rank(j)] = COMPRESSION_METHODS[j]
         /\ \E k \in 1..Len(get_available_methods) :
              get_available_methods[k].id = "none"
         /\ Len(get_available_methods) >= 1
    /\ CodecSelected =>
         /\ \E k \in 1..Len(get_available_methods) :
              get_available_methods[k].id = method_id
         /\ \A j \in 1..Len(COMPRESSION_METHODS) :
              COMPRESSION_METHODS[j].id = method_id => COMPRESSION_METHODS[j].avail
    /\ error \notin {"NameError", "ValueError"}

\* A chunk compressed with lz4 where lz4 is the only optional library found.
C14_Witness ==
    /\ pc = "compress"
    /\ ci >= 1
    /\ method_id = "lz4"
    /\ HAS = {"lz4"}
    /\ Len(get_available_methods) = 5

ExceedsThreshold(original, final) == (original - final) * 100 > original

\* The optimized file is less than a hundredth under the original.
BelowThreshold(original, final) == (original - final) * 100 < original

\* The optimized file was removed and main() works on the original document.
Discarded ==
    /\ ~optimized_file'.exists
    /\ optimized_path' = "None"
    /\ working_pdf' = "pdf_path"
    /\ reader' = reader

\* C12 as stated: after a successful optimization that took less than a
\* hundredth off the size, the optimized file is deleted and the original
\* document is planned; the optimized document is planned only when the
\* reduction is more than a hundredth.
C12_OptimizedOnlyAboveThreshold ==
    [][(pc = "optimized" /\ success) =>
         /\ BelowThreshold(original_size, optimized_file.size) => Discarded
         /\ working_pdf' = "optimized_path" =>
              ExceedsThreshold(original_size, optimized_file.size)]_vars

\* C12, amended: the optimized document is planned when the reduction is at
\* least a hundredth (exactly a hundredth included), and only then; below
\* that the optimized file is deleted and the original document is planned.
C12_OptimizedFromThreshold ==
    /\ [][(pc = "optimized" /\ success) =>
            IF BelowThreshold(original_size, optimized_file.size)
            THEN Discarded
            ELSE /\ working_pdf' = "optimized_path"
                 /\ reader' = optimized_file.doc
                 /\ optimized_path' = "set"
                 /\ optimized_file' = optimized_file]_vars
    /\ [][pc # "optimized" => reader' = reader /\ working_pdf' = working_pdf]_vars
    /\ []((working_pdf = "optimized_path" /\ optimized_file.exists) =>
            /\ success
            /\ ~BelowThreshold(original_size, optimized_file.size)
            /\ reader = optimized_file.doc)

\* A successful optimization was discarded and the original document of
\* three pages planned in two chunks.
C12_Witness ==
    /\ optimization /\ success
    /\ optimized_path = "None"
    /\ ~optimized_file.exists
    /\ working_pdf = "pdf_path"
    /\ pc = "returned"
    /\ total_pages = 3
    /\ Len(chunks) = 2

\* main() has ended: it returned or an exception left it.
Ended == pc \in {"done", "exited", "crashed"}

\* C19 as stated: when a run that asked for the optimization ends, however
\* it ends, no file is left at the path of the optimized document.
C19_OptimizedFileGone ==
    (Ended /\ optimization) => ~optimized_file.exists

====
